---- MODULE Spec2Model ----
(***************************************************************************)
(* Workflow-state tracking and quality gates of opencode-sdlc.             *)
(*                                                                         *)
(*   lib/workflow-state.ts     module-level phase state, logTransition,    *)
(*                             generateReport                              *)
(*   tool track-phase          validates the phase name, logs the          *)
(*                             transition, sets the phase                  *)
(*   plugin/quality-gate.ts    gates, validateGate, logGateCheck,          *)
(*                             tool.execute.before hook, event handler     *)
(*   tool check-quality-gate   its own copy of the four gates              *)
(*   plugin WorkflowTracker    file tracking, session events, report       *)
(*                                                                         *)
(* The operations run one at a time in every specification but SpecConc    *)
(* and FairConc, where track-phase invocations overlap at their awaits.    *)
(*                                                                         *)
(* Strings are modelled by a finite alphabet; shell probes by the outcome  *)
(* of each command; timestamps of records are left out.                    *)
(***************************************************************************)
EXTENDS Integers, Sequences, FiniteSets, TLC

VARIABLES
    strictMode,          \* QUALITY_GATE_STRICT === "true"
    coverageThreshold,   \* parseInt(QUALITY_GATE_COVERAGE_THRESHOLD || "80")
    currentPhase,        \* workflow-state.ts: let currentPhase
    phaseStartTime,      \* workflow-state.ts: let phaseStartTime
    filesModified,       \* workflow-state.ts: const filesModified (a Set)
    wtCurrentPhase,      \* WorkflowTracker closure: let currentPhase
    wtFilesModified,     \* WorkflowTracker closure: const filesModified
    now,                 \* wall clock (Date.now())
    transitionsFile,     \* .opencode/workflow/transitions.jsonl
    gateLogFile,         \* .opencode/workflow/quality-gates.jsonl
    reportFile,          \* .opencode/workflow/report.json
    qualityReportFile,   \* .opencode/workflow/quality-report.json
    call,                \* the track-phase invocation between hook and execute
    calls,               \* the track-phase invocations a host runs in parallel
    ret,                 \* what the operation of the last step handed back to its caller
    lastEval,            \* inputs and result of the last recorded gate evaluation
    returned,            \* what the last call of generateReport returned
    ops                  \* operations started so far

vars == <<strictMode, coverageThreshold, currentPhase, phaseStartTime,
          filesModified, wtCurrentPhase, wtFilesModified, now,
          transitionsFile, gateLogFile, reportFile, qualityReportFile,
          call, calls, ret, lastEval, returned, ops>>

config == <<strictMode, coverageThreshold>>
libState == <<currentPhase, phaseStartTime, filesModified>>
wtState == <<wtCurrentPhase, wtFilesModified>>
files == <<transitionsFile, gateLogFile, reportFile, qualityReportFile>>

(***************************************************************************)
(* Bounds                                                                  *)
(***************************************************************************)
MaxOps == 3              \* tool invocations, events and clock ticks in a run
MaxModeOps == 3          \* gate evaluations and restarts in the runs that compare the two modes
MaxHookOps == 2          \* track-phase requests in the runs of the hook alone
MaxLines == 2            \* lines of a log file found on disk at start
MaxReportOps == 3        \* operations in the runs of the report generators
MaxCalls == 3            \* track-phase invocations a host has in flight at once

(***************************************************************************)
(* Alphabets                                                               *)
(***************************************************************************)
NULL == "null"

validPhases == <<"plan", "design", "implement", "test", "review", "release", "operate">>

ValidPhaseSet == {validPhases[i] : i \in 1..Len(validPhases)}

\* phase arguments a caller passes to track-phase
PhaseArgs == {"design", "implement", "test", "review", "release",
              "Design", "bogus", ""}

\* the phases of the four gates
GatePhases == {"design", "implement", "test", "review", "release"}

\* String.prototype.toLowerCase on the alphabet above
toLowerCase(s) == IF s = "Design" THEN "design" ELSE s

FilePaths == {"a.ts"}

DefaultThreshold == 80

Thresholds == {DefaultThreshold, 90}

CoveragePcts == {72, 80, 85}

\* the key `${currentPhase}→${nextPhase}`
TransitionKey(from, to) == <<from, to>>

GateKeys == {<<"design", "implement">>, <<"implement", "test">>,
             <<"test", "review">>, <<"review", "release">>}

\* transition strings a caller passes to check-quality-gate
KeyArgs == GateKeys \cup {<<"unknown", "phase">>, <<"design", "test">>}

(***************************************************************************)
(* Outcomes of the shell probes of one gate run.  A field is "na" when the *)
(* gate never runs that command.                                           *)
(*   test -f ... && echo true || echo false : "true" | "false" | "error"   *)
(*   find                                   : "found" | "none" | "error"   *)
(*   npx tsc, npx eslint, npm test          : "ok" | "fail" | "error"      *)
(*   npm audit                              : "ok" | "nonzero" | "throw"   *)
(*   cat coverage-summary.json + JSON.parse : "error" | "unparsable" |     *)
(*                                            "missing" | "pct" (with the  *)
(*                                            percentage in field pct)     *)
(* "fail" is a non-zero exit of the check itself, "error" a command that   *)
(* could not run; the shell rejects the promise for both.                  *)
(***************************************************************************)
NoProbes == [find |-> "na", hasTypeScript |-> "na", tsc |-> "na",
             hasEslint |-> "na", eslint |-> "na", hasNpmTest |-> "na",
             npmTest |-> "na", hasCoverage |-> "na", coverage |-> "na",
             pct |-> 0, audit |-> "na", hasChangelog |-> "na"]

TestOutcomes == {"true", "false", "error"}

RunOutcomes == {"ok", "fail", "error"}

CoverageOutcomes == {"error", "unparsable", "missing", "pct"}

DesignProbes == {[NoProbes EXCEPT !.find = f] : f \in {"found", "none", "error"}}

ImplementProbes ==
    {[NoProbes EXCEPT !.hasTypeScript = t, !.tsc = c, !.hasEslint = e, !.eslint = l] :
        t \in TestOutcomes, c \in RunOutcomes \cup {"na"},
        e \in TestOutcomes \cup {"na"}, l \in RunOutcomes \cup {"na"}}

TestProbes ==
    {[NoProbes EXCEPT !.hasNpmTest = t, !.npmTest = r, !.hasCoverage = c,
                      !.coverage = v, !.pct = n] :
        t \in TestOutcomes, r \in RunOutcomes \cup {"na"},
        c \in TestOutcomes \cup {"na"}, v \in CoverageOutcomes \cup {"na"},
        n \in CoveragePcts \cup {0}}

ReleaseProbes ==
    {[NoProbes EXCEPT !.audit = a, !.hasChangelog = c] :
        a \in {"ok", "nonzero", "throw"}, c \in TestOutcomes \cup {"na"}}

\* a probe record is well formed when exactly the commands that run have an outcome
RanImplement(p) ==
    /\ (p.tsc # "na") = (p.hasTypeScript = "true")
    /\ (p.hasEslint # "na") = (p.hasTypeScript # "error" /\ p.tsc \in {"na", "ok"})
    /\ (p.eslint # "na") = (p.hasEslint = "true")

RanTest(p) ==
    /\ (p.npmTest # "na") = (p.hasNpmTest = "true")
    /\ (p.hasCoverage # "na") = (p.hasNpmTest # "error" /\ p.npmTest \in {"na", "ok"})
    /\ (p.coverage # "na") = (p.hasCoverage = "true")
    /\ (p.pct # 0) = (p.coverage = "pct")

RanRelease(p) == (p.hasChangelog # "na") = (p.audit = "ok")

ImplementRuns == {p \in ImplementProbes : RanImplement(p)}

TestRuns == {p \in TestProbes : RanTest(p)}

ReleaseRuns == {p \in ReleaseProbes : RanRelease(p)}

ProbesFor(key) ==
    CASE key = <<"design", "implement">> -> DesignProbes
      [] key = <<"implement", "test">> -> ImplementRuns
      [] key = <<"test", "review">> -> TestRuns
      [] key = <<"review", "release">> -> ReleaseRuns
      [] OTHER -> {NoProbes}

AllRuns == DesignProbes \cup ImplementRuns \cup TestRuns \cup ReleaseRuns \cup {NoProbes}

(***************************************************************************)
(* Messages: icon is the leading emoji, text the part before the first     *)
(* colon, detail what follows it ("" when the message has no colon).       *)
(***************************************************************************)
Msg(icon, text, detail) == [icon |-> icon, text |-> text, detail |-> detail]

NoMsg == Msg("none", "", "")

\* coverage.total?.lines?.pct || 0
totalCoverage(p) == IF p.coverage = "pct" THEN p.pct ELSE 0

(***************************************************************************)
(* plugin/quality-gate.ts: the four gates.  A result is                    *)
(* {passed, message}; none of the four lets an exception escape.           *)
(***************************************************************************)
Result(passed, msg) == [passed |-> passed, message |-> msg, threw |-> FALSE]

Thrown == [passed |-> FALSE, message |-> NoMsg, threw |-> TRUE]

designGate(p) ==
    IF p.find = "error"
    THEN Result(FALSE, Msg("fail", "Error checking design files", "error"))
    ELSE IF p.find = "none"
    THEN Result(FALSE, Msg("fail", "No design files found. Create design specifications before implementing.", ""))
    ELSE Result(TRUE, Msg("pass", "Design files present", ""))

implementGate(p) ==
    IF p.hasTypeScript = "error"
    THEN Result(FALSE, Msg("fail", "Error during implementation validation", "error"))
    ELSE IF p.hasTypeScript = "true" /\ p.tsc # "ok"
    THEN Result(FALSE, Msg("fail", "TypeScript compilation failed. Fix type errors before testing.", ""))
    ELSE IF p.hasEslint = "error"
    THEN Result(FALSE, Msg("fail", "Error during implementation validation", "error"))
    ELSE IF p.hasEslint = "true" /\ p.eslint # "ok"
    THEN Result(FALSE, Msg("fail", "Linting failed. Fix linting errors before testing.", ""))
    ELSE Result(TRUE, Msg("pass", "Code compiles and passes linting", ""))

\* the coverage step of test->review: TRUE when it returns the failure
coverageTooLow(p, threshold) ==
    /\ p.hasCoverage = "true"
    /\ p.coverage \in {"missing", "pct"}
    /\ totalCoverage(p) < threshold

testGate(p, threshold) ==
    IF p.hasNpmTest = "error"
    THEN Result(FALSE, Msg("fail", "Error during test validation", "error"))
    ELSE IF p.hasNpmTest = "true" /\ p.npmTest # "ok"
    THEN Result(FALSE, Msg("fail", "Tests failed. Fix failing tests before review.", ""))
    ELSE IF p.hasCoverage = "error"
    THEN Result(FALSE, Msg("fail", "Error during test validation", "error"))
    ELSE IF coverageTooLow(p, threshold)
    THEN Result(FALSE, Msg("fail", "Coverage is below the threshold. Must be > threshold before review.", ""))
    ELSE Result(TRUE, Msg("pass", "Tests pass with sufficient coverage", ""))

releaseGate(p) ==
    IF p.audit = "nonzero"
    THEN Result(FALSE, Msg("fail", "Security vulnerabilities found. Run 'npm audit' to see details.", ""))
    ELSE IF p.audit = "throw"
    THEN Result(FALSE, Msg("fail", "Security audit failed. Fix vulnerabilities before release.", ""))
    ELSE IF p.hasChangelog = "error"
    THEN Result(FALSE, Msg("fail", "Error during release validation", "error"))
    ELSE IF p.hasChangelog # "true"
    THEN Result(FALSE, Msg("fail", "CHANGELOG.md not found. Update changelog before release.", ""))
    ELSE Result(TRUE, Msg("pass", "Security clean and documentation updated", ""))

gates(key, p, threshold) ==
    CASE key = <<"design", "implement">> -> designGate(p)
      [] key = <<"implement", "test">> -> implementGate(p)
      [] key = <<"test", "review">> -> testGate(p, threshold)
      [] key = <<"review", "release">> -> releaseGate(p)

validateGate(key, p, threshold) ==
    IF key \notin GateKeys
    THEN Result(TRUE, Msg("info", "No quality gate defined for transition", "key"))
    ELSE gates(key, p, threshold)

(***************************************************************************)
(* tool check-quality-gate: its own gates.  Two of them have no try/catch  *)
(* around a probe, so a failing probe command escapes as an exception.     *)
(***************************************************************************)
ToolCoverageBar == 80

toolDesignGate(p) ==
    IF p.find = "error"
    THEN Thrown
    ELSE IF p.find = "none"
    THEN Result(FALSE, Msg("fail", "No design files found. Create design specifications before implementing.", ""))
    ELSE Result(TRUE, Msg("pass", "Design files present", ""))

toolImplementGate(p) ==
    IF p.hasTypeScript = "error" \/ (p.hasTypeScript = "true" /\ p.tsc # "ok")
    THEN Result(FALSE, Msg("fail", "TypeScript compilation failed. Fix type errors before testing.", ""))
    ELSE IF p.hasEslint = "error" \/ (p.hasEslint = "true" /\ p.eslint # "ok")
    THEN Result(FALSE, Msg("fail", "Linting failed. Fix linting errors before testing.", ""))
    ELSE Result(TRUE, Msg("pass", "Code compiles and passes linting", ""))

toolTestGate(p) ==
    IF p.hasNpmTest = "error" \/ (p.hasNpmTest = "true" /\ p.npmTest # "ok")
    THEN Result(FALSE, Msg("fail", "Tests failed. Fix failing tests before review.", ""))
    ELSE IF coverageTooLow(p, ToolCoverageBar)
    THEN Result(FALSE, Msg("fail", "Coverage is below the threshold. Must be > threshold before review.", ""))
    ELSE Result(TRUE, Msg("pass", "Tests pass with sufficient coverage", ""))

toolReleaseGate(p) ==
    IF p.audit = "nonzero"
    THEN Result(FALSE, Msg("fail", "Security vulnerabilities found. Run 'npm audit' to see details.", ""))
    ELSE IF p.audit = "throw"
    THEN Result(FALSE, Msg("fail", "Security audit failed. Fix vulnerabilities before release.", ""))
    ELSE IF p.hasChangelog = "error"
    THEN Thrown
    ELSE IF p.hasChangelog # "true"
    THEN Result(FALSE, Msg("fail", "CHANGELOG.md not found. Update changelog before release.", ""))
    ELSE Result(TRUE, Msg("pass", "Security clean and documentation updated", ""))

toolGates(key, p) ==
    CASE key = <<"design", "implement">> -> toolDesignGate(p)
      [] key = <<"implement", "test">> -> toolImplementGate(p)
      [] key = <<"test", "review">> -> toolTestGate(p)
      [] key = <<"review", "release">> -> toolReleaseGate(p)

\* execute of check-quality-gate: the message it returns, or the exception
checkQualityGate(key, p) ==
    IF key \notin GateKeys
    THEN [threw |-> FALSE,
          message |-> Msg("fail", "No quality gate defined for transition", "key Available transitions")]
    ELSE [threw |-> toolGates(key, p).threw, message |-> toolGates(key, p).message]

(***************************************************************************)
(* Files: a JSON-lines file is absent, or holds a sequence of records.     *)
(* appendFileSync writes one stringified record and "\n" in a single call  *)
(* and creates the file when it is absent.                                 *)
(***************************************************************************)
NoFile == [exists |-> FALSE, lines |-> <<>>]

\* a line that is no JSON text: the partial record a crash in mid-write leaves
Malformed == [partial |-> TRUE]

\* the one "" that "".split("\n") yields
EmptyLine == [empty |-> TRUE]

\* readFileSync(f, "utf-8").trim().split("\n")
readLines(f) == IF f.lines = <<>> THEN <<EmptyLine>> ELSE f.lines

\* JSON.parse(line) returns (it throws a SyntaxError otherwise)
parses(line) == DOMAIN line \cap {"partial", "empty"} = {}

\* lines.map((line) => JSON.parse(line)) returns
allParse(f) == \A i \in 1..Len(readLines(f)) : parses(readLines(f)[i])

\* a check that finds every file
existsSync_always(f) == TRUE

existsSync(f) == f.exists

\* writeFileSync in place of appendFileSync
appendFileSync_overwrite(f, rec) == [exists |-> TRUE, lines |-> <<rec>>]

\* an append that leaves out the "\n": the record lands on the line of the
\* record before it
appendFileSync_noNewline(f, rec) ==
    [exists |-> TRUE,
     lines |-> IF f.lines = <<>> THEN <<rec>>
               ELSE [f.lines EXCEPT ![Len(f.lines)] = Malformed]]

appendFileSync(f, rec) == [exists |-> TRUE, lines |-> Append(f.lines, rec)]

(***************************************************************************)
(* lib/workflow-state.ts                                                   *)
(***************************************************************************)
getCurrentPhase == currentPhase

getFilesModified == filesModified

\* the record logTransition builds; phaseStartTime is <<>> (null) or <<t>>
WorkflowTransition(from, to, fs) ==
    [from |-> from, to |-> to,
     duration |-> IF phaseStartTime # <<>> THEN now - phaseStartTime[1] ELSE 0,
     filesModified |-> fs]

\* a logger that takes its two phase arguments in the other order
logTransition_swapped(from, to, fs) ==
    transitionsFile' = appendFileSync(transitionsFile, WorkflowTransition(to, from, fs))

logTransition(from, to, fs) ==
    transitionsFile' = appendFileSync(transitionsFile, WorkflowTransition(from, to, fs))

\* a setter that stores the lower-cased name
setCurrentPhase_lowered(phase) ==
    /\ currentPhase' = toLowerCase(phase)
    /\ phaseStartTime' = <<now>>

\* a setter that starts the clock of the first phase only
setCurrentPhase_keepsStart(phase) ==
    /\ currentPhase' = phase
    /\ phaseStartTime' = IF phaseStartTime = <<>> THEN <<now>> ELSE phaseStartTime

setCurrentPhase(phase) ==
    /\ currentPhase' = phase
    /\ phaseStartTime' = <<now>>

clearModifiedFiles == filesModified' = {}

\* addModifiedFile is exported and has no caller in the repository
AddModifiedFile(f) ==
    /\ ~call.active
    /\ filesModified' = filesModified \cup {f}
    /\ ret' = [op |-> "none", status |-> "return", message |-> NoMsg,
               evaluated |-> FALSE, passed |-> FALSE]
    /\ UNCHANGED <<config, currentPhase, phaseStartTime, wtState, now, files,
                   call, calls, lastEval, returned>>

(***************************************************************************)
(* tool track-phase                                                        *)
(***************************************************************************)
isValidPhase(phase) == toLowerCase(phase) \in ValidPhaseSet

NoCall == [active |-> FALSE, phase |-> ""]

NoRet == [op |-> "none", status |-> "return", message |-> NoMsg,
          evaluated |-> FALSE, passed |-> FALSE]

Ret(op, status, msg) ==
    [op |-> op, status |-> status, message |-> msg, evaluated |-> FALSE, passed |-> FALSE]

\* an execute that catches the error of logTransition and carries on
TrackPhaseExecute_swallow(appendOk) ==
    /\ call.active
    /\ call' = NoCall
    /\ IF ~isValidPhase(call.phase)
       THEN /\ ret' = Ret("track-phase", "rejected", Msg("fail", "Invalid phase", "Must be one of"))
            /\ UNCHANGED <<libState, transitionsFile>>
       ELSE /\ IF appendOk
               THEN logTransition(getCurrentPhase, call.phase, getFilesModified)
               ELSE UNCHANGED transitionsFile
            /\ setCurrentPhase(call.phase)
            /\ clearModifiedFiles
            /\ ret' = Ret("track-phase", "return", Msg("pass", "Transitioned to phase", ""))
    /\ UNCHANGED <<config, wtState, now, gateLogFile, reportFile, qualityReportFile,
                   lastEval, returned, calls>>

\* an execute that updates the phase first and logs the transition after
TrackPhaseExecute_setFirst(appendOk) ==
    /\ call.active
    /\ call' = NoCall
    /\ IF ~isValidPhase(call.phase)
       THEN /\ ret' = Ret("track-phase", "rejected", Msg("fail", "Invalid phase", "Must be one of"))
            /\ UNCHANGED <<libState, transitionsFile>>
       ELSE IF ~appendOk
       THEN /\ ret' = Ret("track-phase", "throw", NoMsg)
            /\ setCurrentPhase(call.phase)
            /\ UNCHANGED <<filesModified, transitionsFile>>
       ELSE /\ setCurrentPhase(call.phase)
            /\ transitionsFile' = appendFileSync(transitionsFile,
                   [from |-> call.phase, to |-> call.phase, duration |-> 0,
                    filesModified |-> getFilesModified])
            /\ clearModifiedFiles
            /\ ret' = Ret("track-phase", "return", Msg("pass", "Transitioned to phase", ""))
    /\ UNCHANGED <<config, wtState, now, gateLogFile, reportFile, qualityReportFile,
                   lastEval, returned, calls>>

\* execute: runs once the before-hooks of the call have returned
TrackPhaseExecute(appendOk) ==
    /\ call.active
    /\ call' = NoCall
    /\ IF ~isValidPhase(call.phase)
       THEN /\ ret' = Ret("track-phase", "rejected", Msg("fail", "Invalid phase", "Must be one of"))
            /\ UNCHANGED <<libState, transitionsFile>>
       ELSE IF ~appendOk
       THEN \* appendFileSync throws out of logTransition and out of execute
            /\ ret' = Ret("track-phase", "throw", NoMsg)
            /\ UNCHANGED <<libState, transitionsFile>>
       ELSE /\ logTransition(getCurrentPhase, call.phase, getFilesModified)
            /\ setCurrentPhase(call.phase)
            /\ clearModifiedFiles
            /\ ret' = Ret("track-phase", "return", Msg("pass", "Transitioned to phase", ""))
    /\ UNCHANGED <<config, wtState, now, gateLogFile, reportFile, qualityReportFile, lastEval, returned, calls>>

(***************************************************************************)
(* plugin/quality-gate.ts: logGateCheck and the tool.execute.before hook   *)
(***************************************************************************)
mode == IF strictMode THEN "strict" ELSE "warning"

\* a record that marks every failure as blocked
blocked_onFail(result) == ~result.passed

blocked(result) == ~result.passed /\ strictMode

GateLog(key, result) ==
    [transition |-> key, passed |-> result.passed, message |-> result.message,
     mode |-> mode, blocked |-> blocked(result)]

\* a failed append is caught and only reported to the notifier
logGateCheck(log, appendOk) ==
    gateLogFile' = IF appendOk THEN appendFileSync(gateLogFile, log) ELSE gateLogFile

\* a hook that only ever warns
hookThrows_never(result) == FALSE

\* a hook that throws on every failure, whatever the mode
hookThrows_anyMode(result) == ~result.passed

\* strict mode: throw new Error("Quality gate failed ...")
hookThrows(result) == ~result.passed /\ strictMode

Eval(key, p, result) ==
    [valid |-> TRUE, key |-> key, probes |-> p, threshold |-> coverageThreshold,
     mode |-> mode, passed |-> result.passed]

NoEval == [valid |-> FALSE, key |-> <<"", "">>, probes |-> NoProbes,
           threshold |-> DefaultThreshold, mode |-> "warning", passed |-> FALSE]

\* a notifier that lets the failure of showToast escape
showThrows_uncaught(notifierUp) == ~notifierUp

\* notify(client).show: whether the call throws, given whether the client's
\* showToast and log work; both are wrapped in try/catch
showThrows(notifierUp) == FALSE

\* the hook's evaluation of the gate for currentPhase -> nextPhase: whether the
\* hook throws and with what message, the gate's verdict, and the record it
\* hands to logGateCheck.  In warning mode a failed gate is reported with
\* await notifier.warning before the hook returns.
hookOutcome(nextPhase, p, appendOk, notifierUp) ==
    LET key == TransitionKey(getCurrentPhase, nextPhase)
        result == validateGate(key, p, coverageThreshold)
        notifierThrew == ~result.passed /\ ~strictMode /\ showThrows(notifierUp)
    IN  [throws |-> hookThrows(result) \/ notifierThrew,
         message |-> IF hookThrows(result) THEN result.message
                     ELSE IF notifierThrew THEN Msg("fail", "showToast failed", "")
                     ELSE NoMsg,
         passed |-> result.passed,
         record |-> GateLog(key, result),
         appended |-> appendOk]

\* the hook for input.tool = "track-phase" with args.phase = nextPhase
HookTrackPhase(nextPhase, p, appendOk) ==
    /\ ~call.active
    /\ IF getCurrentPhase = NULL \/ nextPhase = ""
       THEN /\ p = NoProbes
            /\ appendOk
            /\ call' = [active |-> TRUE, phase |-> nextPhase]
            /\ ret' = Ret("hook", "return", NoMsg)
            /\ UNCHANGED gateLogFile
       ELSE \E notifierUp \in BOOLEAN :
            LET o == hookOutcome(nextPhase, p, appendOk, notifierUp)
            IN  /\ p \in ProbesFor(TransitionKey(getCurrentPhase, nextPhase))
                /\ logGateCheck(o.record, appendOk)
                /\ call' = IF o.throws THEN NoCall
                           ELSE [active |-> TRUE, phase |-> nextPhase]
                /\ ret' = [op |-> "hook",
                           status |-> IF o.throws THEN "throw" ELSE "return",
                           message |-> o.message,
                           evaluated |-> TRUE, passed |-> o.passed]
    /\ UNCHANGED <<config, libState, wtState, now, transitionsFile, reportFile,
                   qualityReportFile, returned, calls>>

(***************************************************************************)
(* track-phase invocations run in parallel.  The hook and execute are      *)
(* async functions: an invocation gives way to the others at its awaits    *)
(* and nowhere else.  The hook reads the current phase, awaits             *)
(* validateGate (the shell probes), then logs and decides without another  *)
(* await before the append; execute has no await at all.  An invocation    *)
(* is idle, probing (awaiting validateGate), hooked (the hook has          *)
(* returned, execute is due) or done.  transition is the key the hook      *)
(* read; hung says that a probe of this evaluation never returns; gateLog  *)
(* and record hold what the invocation has appended to the two logs.       *)
(* Invocations are numbered in the order in which their hooks start.       *)
(***************************************************************************)
Invocations == 1..MaxCalls

\* phase arguments of the parallel invocations
ConcArgs == {"design", "implement"}

IdleCall == [pc |-> "idle", phase |-> "", transition |-> <<"", "">>, hung |-> FALSE,
             gateLog |-> <<>>, record |-> <<>>]

NoCalls == [i \in Invocations |-> IdleCall]

\* the hook of invocation i up to its await of validateGate
HookBegin(i, nextPhase, hung) ==
    /\ calls[i].pc = "idle"
    /\ i > 1 => calls[i - 1].pc # "idle"
    /\ IF getCurrentPhase = NULL \/ nextPhase = ""
       THEN /\ ~hung
            /\ calls' = [calls EXCEPT ![i] = [@ EXCEPT !.pc = "hooked", !.phase = nextPhase]]
            /\ ret' = Ret("hook", "return", NoMsg)
       ELSE /\ hung => TransitionKey(getCurrentPhase, nextPhase) \in GateKeys
            /\ calls' = [calls EXCEPT ![i] =
                            [@ EXCEPT !.pc = "probing", !.phase = nextPhase,
                                      !.transition = TransitionKey(getCurrentPhase, nextPhase),
                                      !.hung = hung]]
            /\ ret' = Ret("hook", "await", NoMsg)
    /\ UNCHANGED <<config, libState, wtState, now, files, call, lastEval, returned, ops>>

\* the rest of the hook of invocation i, once the probes have returned p
HookResume(i, p, appendOk) ==
    LET key == calls[i].transition
        result == validateGate(key, p, coverageThreshold)
    IN  /\ calls[i].pc = "probing"
        /\ ~calls[i].hung
        /\ p \in ProbesFor(key)
        /\ logGateCheck(GateLog(key, result), appendOk)
        /\ calls' = [calls EXCEPT ![i] =
                        [@ EXCEPT !.pc = IF hookThrows(result) THEN "done" ELSE "hooked",
                                  !.gateLog = IF appendOk THEN <<GateLog(key, result)>>
                                              ELSE <<>>]]
        /\ ret' = [op |-> "hook",
                   status |-> IF hookThrows(result) THEN "throw" ELSE "return",
                   message |-> IF hookThrows(result) THEN result.message ELSE NoMsg,
                   evaluated |-> TRUE, passed |-> result.passed]
        /\ UNCHANGED <<config, libState, wtState, now, transitionsFile, reportFile,
                       qualityReportFile, call, lastEval, returned, ops>>

\* execute of invocation i
Execute(i, appendOk) ==
    /\ calls[i].pc = "hooked"
    /\ IF ~isValidPhase(calls[i].phase)
       THEN /\ ret' = Ret("track-phase", "rejected", Msg("fail", "Invalid phase", "Must be one of"))
            /\ calls' = [calls EXCEPT ![i] = [@ EXCEPT !.pc = "done"]]
            /\ UNCHANGED <<libState, transitionsFile>>
       ELSE IF ~appendOk
       THEN /\ ret' = Ret("track-phase", "throw", NoMsg)
            /\ calls' = [calls EXCEPT ![i] = [@ EXCEPT !.pc = "done"]]
            /\ UNCHANGED <<libState, transitionsFile>>
       ELSE /\ logTransition(getCurrentPhase, calls[i].phase, getFilesModified)
            /\ setCurrentPhase(calls[i].phase)
            /\ clearModifiedFiles
            /\ calls' = [calls EXCEPT ![i] =
                            [@ EXCEPT !.pc = "done",
                                      !.record = <<WorkflowTransition(getCurrentPhase,
                                                       calls[i].phase, getFilesModified)>>]]
            /\ ret' = Ret("track-phase", "return", Msg("pass", "Transitioned to phase", ""))
    /\ UNCHANGED <<config, wtState, now, gateLogFile, reportFile, qualityReportFile,
                   call, lastEval, returned, ops>>

(***************************************************************************)
(* generateReport (lib/workflow-state.ts and the WorkflowTracker plugin    *)
(* hold the same code): the fold of transitions.jsonl into a report.       *)
(***************************************************************************)
EmptyReport == [totalTransitions |-> 0, phases |-> [q \in {} |-> 0], filesChanged |-> {}]

\* a pass that restarts the phase's entry instead of adding to it
addTransition_overwrite(report, t) ==
    LET ph == report.phases
        ph2 == IF t.to = "" THEN ph
               ELSE [q \in DOMAIN ph \cup {t.to} |->
                        IF q = t.to THEN [count |-> 1, totalDuration |-> t.duration]
                        ELSE ph[q]]
    IN  [report EXCEPT !.phases = ph2, !.filesChanged = @ \cup t.filesModified]

\* one pass of transitions.forEach
addTransition(report, t) ==
    LET ph == report.phases
        prev == IF t.to \in DOMAIN ph THEN ph[t.to] ELSE [count |-> 0, totalDuration |-> 0]
        ph2 == IF t.to = "" THEN ph
               ELSE [q \in DOMAIN ph \cup {t.to} |->
                        IF q = t.to
                        THEN [count |-> prev.count + 1,
                              totalDuration |-> prev.totalDuration + t.duration]
                        ELSE ph[q]]
    IN  [report EXCEPT !.phases = ph2, !.filesChanged = @ \cup t.filesModified]

RECURSIVE foldTransitions(_, _)
foldTransitions(ts, report) ==
    IF ts = <<>> THEN report
    ELSE foldTransitions(Tail(ts), addTransition(report, Head(ts)))

WorkflowReport(ts) ==
    foldTransitions(ts, [EmptyReport EXCEPT !.totalTransitions = Len(ts)])

\* JSON.stringify(report, null, 2): a Set has no enumerable properties and
\* is written as {}
stringifyReport(report) == [report EXCEPT !.filesChanged = {}]

NoReportFile == [exists |-> FALSE, content |-> EmptyReport]

NoReturn == [kind |-> "none", report |-> EmptyReport]

\* a generator that folds the log onto the report already in report.json
generateReport_accumulating ==
    IF ~existsSync(transitionsFile)
    THEN /\ ret' = Ret("generateReport", "nodata", Msg("none", "No workflow data available yet.", ""))
         /\ returned' = [kind |-> "nodata", report |-> EmptyReport]
         /\ UNCHANGED reportFile
    ELSE IF ~allParse(transitionsFile)
    THEN /\ ret' = Ret("generateReport", "throw", Msg("none", "SyntaxError", ""))
         /\ returned' = [kind |-> "throw", report |-> EmptyReport]
         /\ UNCHANGED reportFile
    ELSE LET r == foldTransitions(readLines(transitionsFile),
                      [reportFile.content EXCEPT
                          !.totalTransitions = Len(readLines(transitionsFile))])
         IN  /\ reportFile' = [exists |-> TRUE, content |-> stringifyReport(r)]
             /\ ret' = Ret("generateReport", "report", NoMsg)
             /\ returned' = [kind |-> "report", report |-> r]

\* returns the report (or the sentinel) after writing report.json; a line
\* that does not parse makes JSON.parse throw out of generateReport
generateReport ==
    IF ~existsSync(transitionsFile)
    THEN /\ ret' = Ret("generateReport", "nodata", Msg("none", "No workflow data available yet.", ""))
         /\ returned' = [kind |-> "nodata", report |-> EmptyReport]
         /\ UNCHANGED reportFile
    ELSE IF ~allParse(transitionsFile)
    THEN /\ ret' = Ret("generateReport", "throw", Msg("none", "SyntaxError", ""))
         /\ returned' = [kind |-> "throw", report |-> EmptyReport]
         /\ UNCHANGED reportFile
    ELSE /\ reportFile' = [exists |-> TRUE,
                           content |-> stringifyReport(WorkflowReport(readLines(transitionsFile)))]
         /\ ret' = Ret("generateReport", "report", NoMsg)
         /\ returned' = [kind |-> "report", report |-> WorkflowReport(readLines(transitionsFile))]

\* the exported generateReport of lib/workflow-state.ts, called directly
GenerateReport ==
    /\ ~call.active
    /\ generateReport
    /\ UNCHANGED <<config, libState, wtState, now, transitionsFile, gateLogFile,
                   qualityReportFile, call, calls, lastEval>>

(***************************************************************************)
(* generateQualityReport: the fold of quality-gates.jsonl.                 *)
(***************************************************************************)
EmptyQualityReport ==
    [totalChecks |-> 0, passed |-> 0, failed |-> 0, blocked |-> 0, passRate |-> 0,
     byTransition |-> [k \in {} |-> 0], commonFailures |-> [k \in {} |-> 0]]

\* log.message.split(":")[0]
failureType(msg) == <<msg.icon, msg.text>>

addGateLog(report, log) ==
    LET bt == report.byTransition
        cf == report.commonFailures
        prev == IF log.transition \in DOMAIN bt THEN bt[log.transition]
                ELSE [total |-> 0, passed |-> 0, failed |-> 0]
        ft == failureType(log.message)
        bt2 == [k \in DOMAIN bt \cup {log.transition} |->
                   IF k = log.transition
                   THEN [total |-> prev.total + 1,
                         passed |-> prev.passed + (IF log.passed THEN 1 ELSE 0),
                         failed |-> prev.failed + (IF log.passed THEN 0 ELSE 1)]
                   ELSE bt[k]]
        cf2 == IF log.passed THEN cf
               ELSE [k \in DOMAIN cf \cup {ft} |->
                        IF k = ft THEN (IF ft \in DOMAIN cf THEN cf[ft] ELSE 0) + 1
                        ELSE cf[k]]
    IN  [report EXCEPT !.byTransition = bt2, !.commonFailures = cf2]

RECURSIVE foldGateLogs(_, _)
foldGateLogs(logs, report) ==
    IF logs = <<>> THEN report
    ELSE foldGateLogs(Tail(logs), addGateLog(report, Head(logs)))

\* logs.filter((l) => l.passed).length
countPassed(logs) == Cardinality({i \in 1..Len(logs) : logs[i].passed})

\* logs.filter((l) => !l.passed).length
countFailed(logs) == Cardinality({i \in 1..Len(logs) : ~logs[i].passed})

\* logs.filter((l) => l.blocked).length
countBlocked(logs) == Cardinality({i \in 1..Len(logs) : logs[i].blocked})

\* ((passed / total) * 100).toFixed(2), in hundredths of a percent
passRate(npassed, total) ==
    IF total > 0 THEN (npassed * 20000 + total) \div (2 * total) ELSE 0

QualityReport(logs) ==
    foldGateLogs(logs,
        [EmptyQualityReport EXCEPT
            !.totalChecks = Len(logs),
            !.passed = countPassed(logs),
            !.failed = countFailed(logs),
            !.blocked = countBlocked(logs),
            !.passRate = passRate(countPassed(logs), Len(logs))])

NoQualityReportFile == [exists |-> FALSE, content |-> EmptyQualityReport]

NoQualityReport == [kind |-> "null", report |-> EmptyQualityReport]

\* what a call of generateQualityReport returns: null when there is no log,
\* null again when a line does not parse (the error is caught and reported to
\* the notifier), the report otherwise
qualityReportReturned ==
    IF ~existsSync(gateLogFile) THEN NoQualityReport
    ELSE IF ~allParse(gateLogFile) THEN NoQualityReport
    ELSE [kind |-> "report", report |-> QualityReport(readLines(gateLogFile))]

\* the report is written to quality-report.json before it is returned
generateQualityReport ==
    IF qualityReportReturned.kind = "null"
    THEN UNCHANGED qualityReportFile
    ELSE qualityReportFile' = [exists |-> TRUE, content |-> qualityReportReturned.report]

(***************************************************************************)
(* Events and the remaining hooks                                          *)
(***************************************************************************)
\* nextPhases of the session.idle check
nextPhases(phase) ==
    CASE phase = "design" -> "implement"
      [] phase = "implement" -> "test"
      [] phase = "test" -> "review"
      [] phase = "review" -> "release"
      [] OTHER -> ""

\* WorkflowTracker's own logTransition: its phaseStartTime is never set
wtTransition(from, to, fs) == [from |-> from, to |-> to, duration |-> 0, filesModified |-> fs]

\* session.idle, as handled by QualityGate and by WorkflowTracker
SessionIdle ==
    /\ ~call.active
    /\ IF getCurrentPhase # NULL /\ nextPhases(getCurrentPhase) # ""
       THEN \E p \in ProbesFor(TransitionKey(getCurrentPhase, nextPhases(getCurrentPhase))) :
            LET key == TransitionKey(getCurrentPhase, nextPhases(getCurrentPhase))
                result == validateGate(key, p, coverageThreshold)
            IN  ret' = [op |-> "session.idle", status |-> "return",
                        message |-> NoMsg,
                        evaluated |-> TRUE, passed |-> result.passed]
       ELSE ret' = Ret("session.idle", "return", NoMsg)
    /\ IF wtCurrentPhase # NULL /\ wtFilesModified # {}
       THEN /\ transitionsFile' = appendFileSync(transitionsFile,
                   wtTransition(wtCurrentPhase, wtCurrentPhase, wtFilesModified))
            /\ wtFilesModified' = {}
       ELSE UNCHANGED <<transitionsFile, wtFilesModified>>
    /\ UNCHANGED <<config, libState, wtCurrentPhase, now, gateLogFile, reportFile,
                   qualityReportFile, call, calls, lastEval, returned>>

\* session.deleted, as handled by QualityGate and by WorkflowTracker
SessionDeleted ==
    /\ ~call.active
    /\ generateQualityReport
    /\ IF wtCurrentPhase # NULL
       THEN /\ transitionsFile' = appendFileSync(transitionsFile,
                   wtTransition(wtCurrentPhase, "complete", wtFilesModified))
            /\ reportFile' = [exists |-> TRUE,
                   content |-> stringifyReport(WorkflowReport(transitionsFile'.lines))]
            /\ ret' = Ret("session.deleted", "return", NoMsg)
            /\ returned' = [kind |-> "report", report |-> WorkflowReport(transitionsFile'.lines)]
       ELSE /\ generateReport
            /\ UNCHANGED transitionsFile
    /\ UNCHANGED <<config, libState, wtState, now, gateLogFile, call, calls, lastEval>>

\* tool.execute.before of both plugins for a write or edit of file f
WriteEdit(f) ==
    /\ ~call.active
    /\ wtFilesModified' = wtFilesModified \cup {f}
    /\ ret' = NoRet
    /\ UNCHANGED <<config, libState, wtCurrentPhase, now, files, call, calls, lastEval, returned>>

\* the check-quality-gate tool
CheckQualityGate(key) ==
    /\ ~call.active
    /\ \E p \in ProbesFor(key) :
       LET r == checkQualityGate(key, p)
       IN  ret' = [op |-> "check-quality-gate",
                   status |-> IF r.threw THEN "throw" ELSE "return",
                   message |-> r.message,
                   evaluated |-> key \in GateKeys,
                   passed |-> key \in GateKeys /\ toolGates(key, p).passed]
    /\ UNCHANGED <<config, libState, wtState, now, files, call, calls, lastEval, returned>>

\* time passes between two operations
Tick ==
    /\ ~call.active
    /\ now' = now + 1
    /\ ret' = NoRet
    /\ UNCHANGED <<config, libState, wtState, files, call, calls, lastEval, returned>>

\* the host process exits and starts again: module state and closures are
\* recreated, the environment is read again, the files stay
Restart ==
    /\ ~call.active
    /\ strictMode' \in BOOLEAN
    /\ coverageThreshold' \in Thresholds
    /\ currentPhase' = NULL
    /\ phaseStartTime' = <<>>
    /\ filesModified' = {}
    /\ wtCurrentPhase' = NULL
    /\ wtFilesModified' = {}
    /\ ret' = NoRet
    /\ UNCHANGED <<now, files, call, calls, lastEval, returned>>

Init ==
    /\ strictMode \in BOOLEAN
    /\ coverageThreshold \in Thresholds
    /\ currentPhase = NULL
    /\ phaseStartTime = <<>>
    /\ filesModified = {}
    /\ wtCurrentPhase = NULL
    /\ wtFilesModified = {}
    /\ now = 0
    /\ transitionsFile = NoFile
    /\ gateLogFile = NoFile
    /\ reportFile = NoReportFile
    /\ qualityReportFile = NoQualityReportFile
    /\ call = NoCall
    /\ calls = NoCalls
    /\ ret = NoRet
    /\ lastEval = NoEval
    /\ returned = NoReturn
    /\ ops = 0

\* every operation but the execute that completes a call counts against MaxOps
Budget == ops < MaxOps /\ ops' = ops + 1

\* the probe outcomes the hook can meet for a request of nextPhase
HookRuns(nextPhase) ==
    IF getCurrentPhase = NULL \/ nextPhase = "" THEN {NoProbes}
    ELSE ProbesFor(TransitionKey(getCurrentPhase, nextPhase))

Next ==
    \/ \E ph \in PhaseArgs : \E p \in HookRuns(ph), ok \in BOOLEAN :
          Budget /\ HookTrackPhase(ph, p, ok) /\ UNCHANGED lastEval
    \/ \E ok \in BOOLEAN : TrackPhaseExecute(ok) /\ UNCHANGED ops
    \/ \E f \in FilePaths : Budget /\ AddModifiedFile(f)
    \/ \E f \in FilePaths : Budget /\ WriteEdit(f)
    \/ Budget /\ SessionIdle
    \/ Budget /\ SessionDeleted
    \/ Budget /\ GenerateReport
    \/ \E key \in KeyArgs : Budget /\ CheckQualityGate(key)
    \/ Budget /\ Tick
    \/ Budget /\ Restart

Spec == Init /\ [][Next]_vars

(***************************************************************************)
(* SpecGates: the gate functions alone.  One step runs the plugin's        *)
(* validateGate and the tool's execute on the same transition key and the  *)
(* same probe outcomes; lastEval keeps the plugin's verdict with its       *)
(* inputs, ret what the tool returns.                                      *)
(***************************************************************************)
RunGates(key, p) ==
    /\ p \in ProbesFor(key)
    /\ lastEval' = Eval(key, p, validateGate(key, p, coverageThreshold))
    /\ LET r == checkQualityGate(key, p)
       IN  ret' = [op |-> "check-quality-gate",
                   status |-> IF r.threw THEN "throw" ELSE "return",
                   message |-> r.message,
                   evaluated |-> key \in GateKeys,
                   passed |-> key \in GateKeys /\ toolGates(key, p).passed]
    /\ UNCHANGED <<config, libState, wtState, now, files, call, calls, returned, ops>>

NextGates == \E key \in KeyArgs : \E p \in ProbesFor(key) : RunGates(key, p)

SpecGates == Init /\ [][NextGates]_vars

(***************************************************************************)
(* SpecModes: track-phase requests and restarts only, with the hook's      *)
(* evaluations recorded in lastEval, to compare a strict and a warning     *)
(* run on the same inputs.  A restart reads QUALITY_GATE_STRICT again and  *)
(* leaves the threshold as it was.                                         *)
(***************************************************************************)
\* a request made before any phase is set evaluates no gate and is not counted
ModeBudget == ops < MaxModeOps /\ ops' = ops + 1

HookRecorded(nextPhase, p) ==
    /\ HookTrackPhase(nextPhase, p, TRUE)
    /\ lastEval' =
          IF getCurrentPhase = NULL \/ nextPhase = "" THEN lastEval
          ELSE Eval(TransitionKey(getCurrentPhase, nextPhase), p,
                    validateGate(TransitionKey(getCurrentPhase, nextPhase), p,
                                 coverageThreshold))

NextModes ==
    \/ \E ph \in GatePhases : \E p \in HookRuns(ph) :
          /\ IF getCurrentPhase = NULL THEN UNCHANGED ops ELSE ModeBudget
          /\ HookRecorded(ph, p)
    \/ TrackPhaseExecute(TRUE) /\ UNCHANGED ops
    \/ ModeBudget /\ Restart /\ coverageThreshold' = coverageThreshold
                  /\ strictMode' # strictMode

SpecModes == Init /\ [][NextModes]_vars

(***************************************************************************)
(* SpecHook: track-phase requests alone, each met by the hook and, when    *)
(* the hook returns, by execute; either append may fail.                   *)
(***************************************************************************)
HookBudget == ops < MaxHookOps /\ ops' = ops + 1

NextHook ==
    \/ \E ph \in PhaseArgs : \E p \in HookRuns(ph), ok \in BOOLEAN :
          HookBudget /\ HookTrackPhase(ph, p, ok) /\ UNCHANGED lastEval
    \/ \E ok \in BOOLEAN : TrackPhaseExecute(ok) /\ UNCHANGED ops

SpecHook == Init /\ [][NextHook]_vars

(***************************************************************************)
(* SpecReport: the report generators on log files found on disk.  The      *)
(* process starts with the default configuration on a working directory    *)
(* that holds a transitions.jsonl or a quality-gates.jsonl of up to         *)
(* MaxLines lines, some of which may be malformed; it then generates       *)
(* reports and appends transitions through the exported logTransition.     *)
(***************************************************************************)
ReportPhases == {"design", "implement"}

ReportFiles == {"a.ts", "b.ts"}

\* valid lines of transitions.jsonl
TransitionLines ==
    {[from |-> NULL, to |-> t, duration |-> d, filesModified |-> fs] :
        t \in ReportPhases, d \in {0, 5}, fs \in {{}, {"a.ts"}, ReportFiles}}

\* valid lines of quality-gates.jsonl: the records the hook writes for the
\* design gate in either mode, and for a passed and a failed release gate
GateLineOf(key, r, m) ==
    [transition |-> key, passed |-> r.passed, message |-> r.message,
     mode |-> m, blocked |-> ~r.passed /\ m = "strict"]

GateLines ==
    {GateLineOf(<<"design", "implement">>, designGate(p), m) :
        p \in DesignProbes, m \in {"warning", "strict"}}
    \cup
    {GateLineOf(<<"review", "release">>, releaseGate(p), "strict") :
        p \in {q \in ReleaseRuns : q.audit = "ok" /\ q.hasChangelog # "error"}}

\* the files with up to MaxLines lines drawn from alphabet
FilesOf(alphabet) ==
    {NoFile} \cup
    {[exists |-> TRUE, lines |-> ls] :
        ls \in UNION {[1..n -> alphabet] : n \in 0..MaxLines}}

TransitionFiles == FilesOf(TransitionLines \cup {Malformed})

GateFiles == FilesOf(GateLines \cup {Malformed})

InitReport ==
    /\ strictMode = FALSE
    /\ coverageThreshold = DefaultThreshold
    /\ currentPhase = NULL
    /\ phaseStartTime = <<>>
    /\ filesModified = {}
    /\ wtCurrentPhase = NULL
    /\ wtFilesModified = {}
    /\ now = 0
    /\ \/ transitionsFile \in TransitionFiles /\ gateLogFile = NoFile
       \/ transitionsFile = NoFile /\ gateLogFile \in GateFiles
    /\ reportFile = NoReportFile
    /\ qualityReportFile = NoQualityReportFile
    /\ call = NoCall
    /\ calls = NoCalls
    /\ ret = NoRet
    /\ lastEval = NoEval
    /\ returned = NoReturn
    /\ ops = 0

\* the exported logTransition of lib/workflow-state.ts, called directly
LogTransition(from, to, fs) ==
    /\ ~call.active
    /\ logTransition(from, to, fs)
    /\ ret' = Ret("logTransition", "return", NoMsg)
    /\ UNCHANGED <<config, libState, wtState, now, gateLogFile, reportFile,
                   qualityReportFile, call, calls, lastEval, returned>>

ReportBudget == ops < MaxReportOps /\ ops' = ops + 1

NextReport ==
    \/ ReportBudget /\ GenerateReport
    \/ ReportBudget /\ SessionDeleted
    \/ \E to \in ReportPhases : ReportBudget /\ LogTransition(NULL, to, {"b.ts"})

SpecReport == InitReport /\ [][NextReport]_vars

(***************************************************************************)
(* SpecTrack: the track-phase tool with the clock, the file tracking of    *)
(* both components and restarts of the process.                            *)
(***************************************************************************)
MaxTrackOps == 4         \* requests, file edits, clock ticks and restarts in the runs of track-phase

\* phase arguments of these runs: two legal names, one in another case, one illegal
TrackArgs == {"design", "implement", "Design", "bogus"}

TrackBudget == ops < MaxTrackOps /\ ops' = ops + 1

NextTrack ==
    \/ \E ph \in TrackArgs : \E p \in HookRuns(ph), ok \in BOOLEAN :
          TrackBudget /\ HookTrackPhase(ph, p, ok) /\ UNCHANGED lastEval
    \/ \E ok \in BOOLEAN : TrackPhaseExecute(ok) /\ UNCHANGED ops
    \/ \E f \in FilePaths : TrackBudget /\ AddModifiedFile(f)
    \/ \E f \in FilePaths : TrackBudget /\ WriteEdit(f)
    \/ TrackBudget /\ Tick
    \/ TrackBudget /\ Restart

SpecTrack == Init /\ [][NextTrack]_vars

(***************************************************************************)
(* SpecConc: up to MaxCalls track-phase invocations in parallel, in any    *)
(* interleaving their awaits allow.  FairConc adds what the event loop     *)
(* guarantees: a hook whose probes have returned is resumed, and execute   *)
(* is called once the hook has returned.                                   *)
(***************************************************************************)
ResumeOf(i) == \E p \in AllRuns, ok \in BOOLEAN : HookResume(i, p, ok)

ExecuteOf(i) == \E ok \in BOOLEAN : Execute(i, ok)

NextConc ==
    \/ \E i \in Invocations, ph \in ConcArgs, hung \in BOOLEAN : HookBegin(i, ph, hung)
    \/ \E i \in Invocations : ResumeOf(i)
    \/ \E i \in Invocations : ExecuteOf(i)

\* the process as started, with the default coverage threshold
InitConc == Init /\ coverageThreshold = DefaultThreshold

SpecConc == InitConc /\ [][NextConc]_vars

FairConc ==
    /\ SpecConc
    /\ \A i \in Invocations : WF_vars(ResumeOf(i)) /\ WF_vars(ExecuteOf(i))

(***************************************************************************)
(* SpecFiles: track-phase and the write and edit tools, as the repository  *)
(* wires them: the plugins' hook for write and edit is the only observer   *)
(* of edits, and nothing in the repository calls addModifiedFile.          *)
(***************************************************************************)
MaxFileOps == 3          \* requests, file edits and restarts in the runs of the file tracking

FileBudget == ops < MaxFileOps /\ ops' = ops + 1

NextFiles ==
    \/ \E ph \in TrackArgs : \E p \in HookRuns(ph), ok \in BOOLEAN :
          FileBudget /\ HookTrackPhase(ph, p, ok) /\ UNCHANGED lastEval
    \/ \E ok \in BOOLEAN : TrackPhaseExecute(ok) /\ UNCHANGED ops
    \/ \E f \in FilePaths : FileBudget /\ WriteEdit(f)
    \/ FileBudget /\ Restart

SpecFiles == Init /\ [][NextFiles]_vars

(***************************************************************************)
(* Properties.  A step is a hook step exactly when ret'.op = "hook", an    *)
(* execute of track-phase exactly when ret'.op = "track-phase": every      *)
(* action writes its own operation into ret.                               *)
(***************************************************************************)
IsPrefix(s, t) == Len(s) <= Len(t) /\ SubSeq(t, 1, Len(s)) = s

Last(s) == s[Len(s)]

\* the hook has just evaluated a gate
HookEvaluated == ret'.op = "hook" /\ ret'.evaluated

\* C1: in strict mode, a hook step that evaluates a failing gate ends in the
\* blocking error; the call is dropped, so execute (and with it setPhase and
\* logTransition) does not run, transitions.jsonl and the phase state are as
\* before the request.
C1_StrictBlocks ==
    [][(strictMode /\ HookEvaluated /\ ~ret'.passed)
          => /\ ret'.status = "throw"
             /\ ret'.message.icon = "fail"
             /\ ~call'.active
             /\ currentPhase' = currentPhase
             /\ phaseStartTime' = phaseStartTime
             /\ transitionsFile' = transitionsFile]_vars

\* C1, the case: strict mode, phase design, the hook has thrown on a failed
\* gate whose record says blocked, and the log holds the one transition to design
C1_Witness ==
    /\ strictMode
    /\ ret.op = "hook" /\ ret.status = "throw"
    /\ ~call.active
    /\ currentPhase = "design"
    /\ Len(transitionsFile.lines) = 1
    /\ gateLogFile.lines # <<>>
    /\ Last(gateLogFile.lines).blocked
    /\ Last(gateLogFile.lines).transition = <<"design", "implement">>

\* C2: in warning mode every hook step returns normally and hands the call
\* on to execute, whatever the gate's outcome; and the execute that follows
\* a failed gate, when its append to transitions.jsonl is not refused by the
\* file system, appends the record of the transition and leaves the requested
\* phase as the current one.
C2_WarningNeverBlocks ==
    [][/\ (~strictMode /\ ret'.op = "hook")
             => (ret'.status = "return" /\ call'.active)
       /\ (/\ ~strictMode
           /\ call.active /\ ret.op = "hook" /\ ret.evaluated /\ ~ret.passed
           /\ ret'.op = "track-phase" /\ ret'.status # "throw")
             => /\ ret'.status = "return"
                /\ currentPhase' = call.phase
                /\ Len(transitionsFile'.lines) = Len(transitionsFile.lines) + 1
                /\ IsPrefix(transitionsFile.lines, transitionsFile'.lines)
                /\ Last(transitionsFile'.lines).from = currentPhase
                /\ Last(transitionsFile'.lines).to = call.phase]_vars

\* C2, the case: warning mode, the gate design->implement failed and was
\* logged unblocked, and the transition to implement went through
C2_Witness ==
    /\ ~strictMode
    /\ ret.op = "track-phase" /\ ret.status = "return"
    /\ currentPhase = "implement"
    /\ gateLogFile.lines # <<>>
    /\ ~Last(gateLogFile.lines).passed
    /\ ~Last(gateLogFile.lines).blocked
    /\ Last(gateLogFile.lines).transition = <<"design", "implement">>
    /\ Last(transitionsFile.lines).from = "design"
    /\ Last(transitionsFile.lines).to = "implement"

\* every record of quality-gates.jsonl: blocked iff failed in strict mode
BlockedIffStrictFailure ==
    \A i \in 1..Len(gateLogFile.lines) :
        LET l == gateLogFile.lines[i]
        IN  l.blocked <=> (~l.passed /\ l.mode = "strict")

\* two successive hook evaluations on the same transition, probe outcomes and
\* threshold, one in each mode
SameInputsOtherMode ==
    /\ lastEval.valid /\ lastEval'.valid
    /\ Len(gateLogFile'.lines) = Len(gateLogFile.lines) + 1
    /\ gateLogFile.lines # <<>>
    /\ lastEval'.key = lastEval.key
    /\ lastEval'.probes = lastEval.probes
    /\ lastEval'.threshold = lastEval.threshold
    /\ lastEval'.mode # lastEval.mode

\* C3: the hook run in one mode and then, after a restart, in the other mode
\* on the same phase state and the same probe outcomes appends a gate-log
\* record with the same passed value as the first; and in every record of
\* quality-gates.jsonl blocked is true iff passed is false and mode is strict.
C3_SameVerdictBothModes ==
    /\ []BlockedIffStrictFailure
    /\ [][SameInputsOtherMode
            => /\ Last(gateLogFile'.lines).passed = Last(gateLogFile.lines).passed
               /\ Last(gateLogFile'.lines).mode # Last(gateLogFile.lines).mode
               /\ Last(gateLogFile'.lines).transition = Last(gateLogFile.lines).transition]_vars

\* C3, the case: the last two records are of the same failed gate, one written
\* in each mode, and only one of them is blocked
C3_Witness ==
    /\ Len(gateLogFile.lines) >= 2
    /\ LET n == Len(gateLogFile.lines)
           a == gateLogFile.lines[n - 1]
           b == gateLogFile.lines[n]
       IN  /\ a.transition = b.transition
           /\ a.mode # b.mode
           /\ ~a.passed /\ ~b.passed
           /\ a.message = b.message
           /\ a.blocked # b.blocked
    /\ lastEval.valid
    /\ lastEval.mode = mode

\* a step in which a gate is evaluated: by the hook, by the session.idle
\* check or by the check-quality-gate tool
EvaluationStep ==
    /\ ret'.evaluated
    /\ ret'.op \in {"hook", "session.idle", "check-quality-gate"}

\* C4: every gate evaluation appends exactly one record to quality-gates.jsonl,
\* whether the hook, the session.idle check or the check-quality-gate tool
\* ran it.
C4_EveryEvaluationLogged ==
    [][EvaluationStep
          => /\ Len(gateLogFile'.lines) = Len(gateLogFile.lines) + 1
             /\ IsPrefix(gateLogFile.lines, gateLogFile'.lines)]_vars

\* C5: an execute of track-phase whose argument is not one of the seven legal
\* names returns the rejection that lists them, and leaves the current phase,
\* the phase-start time, the pending files and transitions.jsonl as they were
\* (stated for the executes in which no write is refused by the file system).
C5_InvalidPhaseRejected ==
    [][(/\ call.active /\ ret'.op = "track-phase" /\ ret'.status # "throw"
        /\ call.phase \notin ValidPhaseSet)
          => /\ ret'.status = "rejected"
             /\ ret'.message.text = "Invalid phase"
             /\ currentPhase' = currentPhase
             /\ phaseStartTime' = phaseStartTime
             /\ filesModified' = filesModified
             /\ transitionsFile' = transitionsFile]_vars

\* a step in which execute of track-phase reaches setCurrentPhase
SetPhaseStep == call.active /\ ret'.op = "track-phase" /\ ret'.status = "return"

\* C6: a step that calls setCurrentPhase leaves its argument as the value of
\* getCurrentPhase, and within one run of the process no other step changes
\* that value (a restart of the process starts again from null).
C6_PhaseIsLastSet ==
    [][/\ SetPhaseStep => currentPhase' = call.phase
       /\ currentPhase' # currentPhase => (SetPhaseStep \/ Restart)]_vars

\* C6, the case: two setCurrentPhase calls with different arguments, the
\* phase is the second one, and a session.idle check has run since
C6_Witness ==
    /\ Len(transitionsFile.lines) >= 2
    /\ transitionsFile.lines[1].to # Last(transitionsFile.lines).to
    /\ currentPhase = Last(transitionsFile.lines).to
    /\ currentPhase # NULL
    /\ ret.op = "session.idle" /\ ret.evaluated

\* the record of one transition, complete
CompleteTransition(rec) == DOMAIN rec = {"from", "to", "duration", "filesModified"}

\* C7: in every step the lines of transitions.jsonl before it are a prefix of
\* the lines after it, the file is never removed, and every line added is one
\* complete transition record.
C7_TransitionsAppendOnly ==
    [][/\ IsPrefix(transitionsFile.lines, transitionsFile'.lines)
       /\ transitionsFile.exists => transitionsFile'.exists
       /\ \A i \in (Len(transitionsFile.lines) + 1)..Len(transitionsFile'.lines) :
             CompleteTransition(transitionsFile'.lines[i])]_vars

\* C7, the case: the log holds two transitions and generateReport has just
\* read it
C7_Witness ==
    /\ Len(transitionsFile.lines) >= 2
    /\ ret.op = "generateReport" /\ ret.status = "report"
    /\ reportFile.exists
    /\ reportFile.content.totalTransitions = Len(transitionsFile.lines)

\* the plugin's validateGate and the tool's execute have just run on a key
\* that names none of the four gates
UnknownKeyRun ==
    /\ lastEval.valid
    /\ lastEval.key \notin GateKeys
    /\ ret.op = "check-quality-gate"

\* C8: for a transition key that names none of the four gates, the plugin's
\* validateGate and the check-quality-gate tool both answer with the
\* informational "no gate defined" result: passed, and not marked as a
\* failure or an error.
C8_UnknownKeyInformational ==
    UnknownKeyRun
        => /\ lastEval.passed
           /\ validateGate(lastEval.key, lastEval.probes, lastEval.threshold).message.icon = "info"
           /\ ret.status = "return"
           /\ ret.message.text = "No quality gate defined for transition"
           /\ ret.message.icon = "info"

\* a probe that is not optional could not run, or errored: a command that
\* could not be executed, a coverage file that is there and cannot be read or
\* parsed, an audit that failed to execute
ProbeErrored(p) ==
    \/ p.find = "error"
    \/ p.hasTypeScript = "error" \/ p.tsc = "error"
    \/ p.hasEslint = "error" \/ p.eslint = "error"
    \/ p.hasNpmTest = "error" \/ p.npmTest = "error"
    \/ p.hasCoverage = "error" \/ p.coverage \in {"error", "unparsable"}
    \/ p.audit = "throw"
    \/ p.hasChangelog = "error"

\* C9: the plugin's evaluator fails closed: a run of one of the four gates in
\* which a probe could not run or errored ends with passed = false and a
\* failure message.
C9_FailsClosed ==
    (lastEval.valid /\ lastEval.key \in GateKeys /\ ProbeErrored(lastEval.probes))
        => /\ ~lastEval.passed
           /\ validateGate(lastEval.key, lastEval.probes, lastEval.threshold).message.icon = "fail"

\* the rule of test->review: the tests, when configured, exit 0, and there is
\* no coverage file or the reported line coverage reaches the threshold
TestReviewRule(p, threshold) ==
    /\ p.hasNpmTest \in {"true", "false"}
    /\ p.hasNpmTest = "true" => p.npmTest = "ok"
    /\ \/ p.hasCoverage = "false"
       \/ p.hasCoverage = "true" /\ p.coverage = "pct" /\ p.pct >= threshold

\* C10: test->review passes iff the rule holds with the configured threshold,
\* in the plugin's gate and in the gate of the check-quality-gate tool alike.
C10_TestReviewRule ==
    (lastEval.valid /\ lastEval.key = <<"test", "review">> /\ ret.op = "check-quality-gate")
        => /\ lastEval.passed <=> TestReviewRule(lastEval.probes, coverageThreshold)
           /\ ret.passed <=> TestReviewRule(lastEval.probes, coverageThreshold)

\* C11: a gate evaluation returns its result as data and never throws, for
\* every transition key and every combination of probe outcomes, in the
\* plugin's validateGate and in execute of the check-quality-gate tool.
C11_FailuresAreData ==
    (lastEval.valid /\ ret.op = "check-quality-gate")
        => /\ ~validateGate(lastEval.key, lastEval.probes, lastEval.threshold).threw
           /\ ret.status = "return"

\* a hook step whose gate evaluation left quality-gates.jsonl as it was: the
\* append of the record failed
GateLogAppendFailed == HookEvaluated /\ gateLogFile' = gateLogFile

\* C12: when the append of the record to quality-gates.jsonl fails, the hook
\* fails towards its caller with that failure.
C12_GateLogFailurePropagates ==
    [][GateLogAppendFailed
          => /\ ret'.status = "throw"
             /\ ret'.message.text = "Failed to log quality gate check"]_vars

\* an execute of track-phase with a legal name whose append to
\* transitions.jsonl failed
TransitionAppendFailed ==
    /\ call.active /\ ret'.op = "track-phase"
    /\ isValidPhase(call.phase)
    /\ transitionsFile' = transitionsFile

\* C13: when the append to transitions.jsonl fails in track-phase, execute
\* throws to its caller, setCurrentPhase is not reached (phase and phase-start
\* time are as before) and the pending files are not cleared.
C13_TransitionFailureSurfaced ==
    [][TransitionAppendFailed
          => /\ ret'.status = "throw"
             /\ currentPhase' = currentPhase
             /\ phaseStartTime' = phaseStartTime
             /\ filesModified' = filesModified]_vars

\* C13, the case: with phase design, one transition logged and a file
\* pending, an execute has thrown
C13_Witness ==
    /\ ret.op = "track-phase" /\ ret.status = "throw"
    /\ currentPhase = "design"
    /\ filesModified # {}
    /\ Len(transitionsFile.lines) = 1

ReportedOn == ret.op = "generateReport"

\* C15: generateReport on a directory without transitions.jsonl returns the
\* "no data" sentinel, does not throw, and leaves report.json and the log as
\* they were (absent).
C15_NoLogNoData ==
    [][(ret'.op = "generateReport" /\ ~transitionsFile.exists)
          => /\ ret'.status = "nodata"
             /\ ret'.message.text = "No workflow data available yet."
             /\ returned'.kind = "nodata"
             /\ reportFile' = reportFile
             /\ transitionsFile' = transitionsFile]_vars

\* C15, the case: no log, generateReport has returned the sentinel and there
\* is no report.json
C15_Witness ==
    /\ ReportedOn /\ ret.status = "nodata"
    /\ ~transitionsFile.exists
    /\ ~reportFile.exists

\* every line of the file is a valid record (a file of no lines included)
AllValid(f) == f.exists /\ \A i \in 1..Len(f.lines) : parses(f.lines[i])

RECURSIVE SumCounts(_, _)
SumCounts(phases, S) ==
    IF S = {} THEN 0
    ELSE LET p == CHOOSE x \in S : TRUE
         IN  phases[p].count + SumCounts(phases, S \ {p})

\* C16: on a log of N valid lines, N >= 0, generateReport returns a report
\* with totalTransitions = N whose per-phase counts add up to N.
C16_CountsAddUp ==
    (ReportedOn /\ AllValid(transitionsFile))
        => /\ returned.kind = "report"
           /\ returned.report.totalTransitions = Len(transitionsFile.lines)
           /\ SumCounts(returned.report.phases, DOMAIN returned.report.phases)
                 = Len(transitionsFile.lines)

\* what the report of a log of valid lines has to be, computed line by line
\* from the definition: counts, sums of durations, union of the file lists
CountTo(ls, p) == Cardinality({i \in 1..Len(ls) : ls[i].to = p})

RECURSIVE SumDurations(_, _)
SumDurations(ls, p) ==
    IF ls = <<>> THEN 0
    ELSE (IF Head(ls).to = p THEN Head(ls).duration ELSE 0) + SumDurations(Tail(ls), p)

ExpectedReport(ls) ==
    [totalTransitions |-> Len(ls),
     phases |-> [p \in {ls[i].to : i \in 1..Len(ls)} \ {""} |->
                    [count |-> CountTo(ls, p), totalDuration |-> SumDurations(ls, p)]],
     filesChanged |-> UNION {ls[i].filesModified : i \in 1..Len(ls)}]

\* C17: the report generateReport returns has, for each phase p, count = the
\* number of records with to = p and totalDuration = the sum of their
\* durations, and filesChanged = the union of the records' filesModified.
C17_ReportIsTheFold ==
    (ReportedOn /\ returned.kind = "report")
        => /\ returned.report.phases = ExpectedReport(transitionsFile.lines).phases
           /\ returned.report.filesChanged = ExpectedReport(transitionsFile.lines).filesChanged

\* C17, the case: a report over two records to the same phase, with
\* durations to add and two files between them
C17_Witness ==
    /\ ReportedOn /\ returned.kind = "report"
    /\ Len(transitionsFile.lines) >= 2
    /\ transitionsFile.lines[1].to = transitionsFile.lines[2].to
    /\ transitionsFile.lines[1].duration = 5
    /\ transitionsFile.lines[2].duration = 5
    /\ returned.report.filesChanged = ReportFiles

\* C18: report.json read back is the report generateReport returned: same
\* totalTransitions, same phases, same filesChanged.
C18_FileIsReturnedReport ==
    (ReportedOn /\ returned.kind = "report")
        => /\ reportFile.exists
           /\ reportFile.content.totalTransitions = returned.report.totalTransitions
           /\ reportFile.content.phases = returned.report.phases
           /\ reportFile.content.filesChanged = returned.report.filesChanged

\* report.json after a call is what the current log alone gives
ReportFromLogOnly ==
    (ReportedOn /\ returned.kind = "report")
        => /\ returned.report = ExpectedReport(transitionsFile.lines)
           /\ reportFile = [exists |-> TRUE,
                            content |-> stringifyReport(ExpectedReport(transitionsFile.lines))]

\* C19: generateReport called again with no append in between returns the
\* same report and leaves report.json with the same content; and after any
\* call report.json is determined by the log as it is, whatever report.json
\* held before.
C19_ReportIdempotent ==
    /\ []ReportFromLogOnly
    /\ [][(ReportedOn /\ ret'.op = "generateReport" /\ transitionsFile' = transitionsFile)
            => (returned' = returned /\ ret' = ret /\ reportFile' = reportFile)]_vars

\* C19, the case: a report made, a transition appended, and the report made
\* again over the longer log
C19_Witness ==
    /\ ReportedOn /\ returned.kind = "report"
    /\ ops = 3
    /\ Len(transitionsFile.lines) = 2
    /\ transitionsFile.lines[2].filesModified = {"b.ts"}
    /\ transitionsFile.lines[1].filesModified = {"a.ts"}
    /\ reportFile.content.totalTransitions = 2

HasMalformed(f) == f.exists /\ \E i \in 1..Len(f.lines) : ~parses(f.lines[i])

ValidCount(f) == Cardinality({i \in 1..Len(f.lines) : parses(f.lines[i])})

\* C20: with malformed lines in the log, generateReport and
\* generateQualityReport still produce a report, over the valid lines.
C20_MalformedLinesSkipped ==
    [][/\ (ret'.op = "generateReport" /\ HasMalformed(transitionsFile))
            => /\ returned'.kind = "report"
               /\ returned'.report.totalTransitions = ValidCount(transitionsFile)
       /\ (SessionDeleted /\ HasMalformed(gateLogFile))
            => /\ qualityReportFile'.exists
               /\ qualityReportFile'.content.totalChecks = ValidCount(gateLogFile)]_vars

RECURSIVE SumTotals(_, _)
SumTotals(byTransition, S) ==
    IF S = {} THEN 0
    ELSE LET k == CHOOSE x \in S : TRUE
         IN  byTransition[k].total + SumTotals(byTransition, S \ {k})

RECURSIVE SumFailures(_, _)
SumFailures(commonFailures, S) ==
    IF S = {} THEN 0
    ELSE LET k == CHOOSE x \in S : TRUE
         IN  commonFailures[k] + SumFailures(commonFailures, S \ {k})

\* the counts of a quality report are the fold of the records logs
CountsAreTheFold(report, logs) ==
    /\ report.totalChecks = Len(logs)
    /\ report.totalChecks = report.passed + report.failed
    /\ report.blocked = Cardinality({i \in 1..Len(logs) : logs[i].blocked})
    /\ report.blocked <= report.failed
    /\ \A k \in DOMAIN report.byTransition :
          /\ report.byTransition[k].total
                = report.byTransition[k].passed + report.byTransition[k].failed
          /\ report.byTransition[k].total
                = Cardinality({i \in 1..Len(logs) : logs[i].transition = k})
    /\ SumTotals(report.byTransition, DOMAIN report.byTransition) = report.totalChecks
    /\ SumFailures(report.commonFailures, DOMAIN report.commonFailures) = report.failed

\* C21: on a gate log of N valid records, N >= 0, generateQualityReport
\* returns and writes a report whose counts are the fold of the log
\* (totalChecks = passed + failed = N, blocked = the number of blocked records
\* and at most failed, per key total = passed + failed, the totals add up to
\* totalChecks, the commonFailures counts add up to failed); without a gate
\* log it returns null and writes no report file.
C21_QualityCountsAreTheFold ==
    [][SessionDeleted
          => /\ ~gateLogFile.exists
                  => /\ qualityReportReturned.kind = "null"
                     /\ qualityReportFile' = qualityReportFile
             /\ AllValid(gateLogFile)
                  => /\ qualityReportReturned.kind = "report"
                     /\ qualityReportFile'
                           = [exists |-> TRUE, content |-> qualityReportReturned.report]
                     /\ CountsAreTheFold(qualityReportReturned.report, gateLogFile.lines)]_vars

\* the same, for the logs that hold at least one record
QualityCountsOfNonEmptyLog ==
    [][SessionDeleted
          => /\ ~gateLogFile.exists
                  => /\ qualityReportReturned.kind = "null"
                     /\ qualityReportFile' = qualityReportFile
             /\ (AllValid(gateLogFile) /\ gateLogFile.lines # <<>>)
                  => /\ qualityReportReturned.kind = "report"
                     /\ qualityReportFile'
                           = [exists |-> TRUE, content |-> qualityReportReturned.report]
                     /\ CountsAreTheFold(qualityReportReturned.report, gateLogFile.lines)]_vars

\* C22: the record an execute of track-phase appends has duration >= 0; the
\* duration is 0 when no phase is set (none was set since the process
\* started), and otherwise the time elapsed since the immediately previous
\* setCurrentPhase call: every such call notes the time at which it is made,
\* nothing else moves that note within a run of the process, and the
\* duration is the clock's reading less the note.
C22_DurationIsElapsed ==
    [][/\ SetPhaseStep
            => /\ phaseStartTime' = <<now>>
               /\ Len(transitionsFile'.lines) = Len(transitionsFile.lines) + 1
               /\ Last(transitionsFile'.lines).duration >= 0
               /\ Last(transitionsFile'.lines).duration
                     = IF currentPhase = NULL THEN 0 ELSE now - phaseStartTime[1]
       /\ phaseStartTime' # phaseStartTime
            => (SetPhaseStep \/ (phaseStartTime' = <<>> /\ currentPhase' = NULL))]_vars

\* C22, the case: three transitions in one run of the process, the second
\* made one tick after the first, the third at once after the second
C22_Witness ==
    /\ ret.op = "track-phase" /\ ret.status = "return"
    /\ Len(transitionsFile.lines) = 3
    /\ transitionsFile.lines[1].from = NULL
    /\ transitionsFile.lines[1].duration = 0
    /\ transitionsFile.lines[2].from # NULL
    /\ transitionsFile.lines[2].duration = 1
    /\ transitionsFile.lines[3].from # NULL
    /\ transitionsFile.lines[3].duration = 0
    /\ now = 1

\* C23: every gate evaluation completes with a result: an invocation that
\* awaits its probes leaves that state, the evaluation of a probe that never
\* returns included (by timing out with a failed result).
C23_EvaluationCompletes ==
    \A i \in Invocations : (calls[i].pc = "probing") ~> (calls[i].pc # "probing")

\* the same, for the evaluations whose probes all return
ReturningProbesComplete ==
    \A i \in Invocations :
        (calls[i].pc = "probing" /\ ~calls[i].hung) ~> (calls[i].pc # "probing")

\* the record of one gate check, complete
CompleteGateLog(rec) == DOMAIN rec = {"transition", "passed", "message", "mode", "blocked"}

Occurrences(lines, rec) == Cardinality({k \in 1..Len(lines) : lines[k] = rec})

\* the invocations that have appended rec to transitions.jsonl, to quality-gates.jsonl
TransitionWriters(rec) == {i \in Invocations : calls[i].record = <<rec>>}

GateLogWriters(rec) == {i \in Invocations : calls[i].gateLog = <<rec>>}

\* C24: under every interleaving of parallel track-phase invocations, every
\* line of transitions.jsonl and of quality-gates.jsonl is one complete
\* record, each line is the record of one invocation, and every record an
\* invocation has appended is in its log, as often as it was appended.
C24_AppendsAreAtomic ==
    /\ \A k \in 1..Len(transitionsFile.lines) :
          /\ parses(transitionsFile.lines[k])
          /\ CompleteTransition(transitionsFile.lines[k])
          /\ TransitionWriters(transitionsFile.lines[k]) # {}
    /\ \A k \in 1..Len(gateLogFile.lines) :
          /\ parses(gateLogFile.lines[k])
          /\ CompleteGateLog(gateLogFile.lines[k])
          /\ GateLogWriters(gateLogFile.lines[k]) # {}
    /\ Len(transitionsFile.lines) = Cardinality({i \in Invocations : calls[i].record # <<>>})
    /\ Len(gateLogFile.lines) = Cardinality({i \in Invocations : calls[i].gateLog # <<>>})
    /\ \A i \in Invocations :
          /\ calls[i].record # <<>>
                => Occurrences(transitionsFile.lines, calls[i].record[1])
                      = Cardinality(TransitionWriters(calls[i].record[1]))
          /\ calls[i].gateLog # <<>>
                => Occurrences(gateLogFile.lines, calls[i].gateLog[1])
                      = Cardinality(GateLogWriters(calls[i].gateLog[1]))

\* C24, the case: the second and the third invocation awaited their probes
\* at the same time, the third was resumed first, and all three invocations
\* have appended their records
C24_Witness ==
    /\ \A i \in 1..3 : calls[i].pc = "done" /\ calls[i].record # <<>>
    /\ calls[2].gateLog # <<>> /\ calls[3].gateLog # <<>>
    /\ calls[2].gateLog # calls[3].gateLog
    /\ calls[2].transition = calls[3].transition
    /\ gateLogFile.lines = calls[3].gateLog \o calls[2].gateLog
    /\ Len(transitionsFile.lines) = 3
    /\ transitionsFile.lines[2] = calls[3].record[1]
    /\ transitionsFile.lines[3] = calls[2].record[1]

\* C25: an execute of track-phase that returns its confirmation appends
\* exactly one record to transitions.jsonl, with from = the current phase
\* before the call (null on the first transition), to = the argument and
\* filesModified = the pending set before the call; the record is built and
\* appended before the phase is updated (its from and duration are those of
\* the phase being left); after the call the current phase is the argument
\* and the pending set is empty.
C25_TrackPhaseRecord ==
    [][SetPhaseStep
          => /\ Len(transitionsFile'.lines) = Len(transitionsFile.lines) + 1
             /\ IsPrefix(transitionsFile.lines, transitionsFile'.lines)
             /\ Last(transitionsFile'.lines).from = currentPhase
             /\ Last(transitionsFile'.lines).to = call.phase
             /\ Last(transitionsFile'.lines).filesModified = filesModified
             /\ Last(transitionsFile'.lines).duration
                   = IF phaseStartTime = <<>> THEN 0 ELSE now - phaseStartTime[1]
             /\ currentPhase' = call.phase
             /\ filesModified' = {}]_vars

\* C25, the case: from design, with a.ts pending, one tick after design was
\* set, track-phase to implement has returned
C25_Witness ==
    /\ ret.op = "track-phase" /\ ret.status = "return"
    /\ Len(transitionsFile.lines) = 2
    /\ transitionsFile.lines[1].from = NULL
    /\ Last(transitionsFile.lines).from = "design"
    /\ Last(transitionsFile.lines).to = "implement"
    /\ Last(transitionsFile.lines).filesModified = {"a.ts"}
    /\ Last(transitionsFile.lines).duration = 1
    /\ currentPhase = "implement"
    /\ filesModified = {}

\* C26: the filesModified of the record track-phase appends holds exactly
\* the paths written or edited since the previous transition was logged: the
\* record takes the pending set and the append empties it, every write or
\* edit the plugins observe puts its path into the pending set, and the
\* pending set grows in no other step.
C26_RecordHoldsEditedFiles ==
    [][/\ SetPhaseStep
            => /\ Last(transitionsFile'.lines).filesModified = getFilesModified
               /\ filesModified' = {}
       /\ \A f \in FilePaths : WriteEdit(f) => f \in filesModified'
       /\ ~(filesModified' \subseteq filesModified)
            => \E f \in FilePaths : WriteEdit(f) /\ filesModified' = filesModified \cup {f}]_vars

\* C27: whatever strings track-phase is called with, the current phase is
\* unset or one of the seven legal names, and every to of transitions.jsonl
\* is one of the seven.
C27_PhaseIsLegal ==
    /\ currentPhase = NULL \/ currentPhase \in ValidPhaseSet
    /\ \A k \in 1..Len(transitionsFile.lines) : transitionsFile.lines[k].to \in ValidPhaseSet

\* C28: whenever a current phase is set and no track-phase call is between
\* its hook and its execute, the current phase is the to of the last record of
\* transitions.jsonl (so the phase lost in a restart is the to of the log's
\* last entry); and each record's from is the to of the record before it,
\* but for the first record of a run of the process, whose from is null.
C28_PhaseIsLastRecord ==
    /\ (currentPhase # NULL /\ ~call.active)
          => /\ transitionsFile.lines # <<>>
             /\ Last(transitionsFile.lines).to = currentPhase
    /\ \A k \in 1..Len(transitionsFile.lines) :
          \/ transitionsFile.lines[k].from = NULL
          \/ k > 1 /\ transitionsFile.lines[k].from = transitionsFile.lines[k - 1].to

\* C28, the case: two transitions in one run of the process, the second from
\* the phase the first led to, and the session has ended since (both plugins
\* have handled session.deleted)
C28_Witness ==
    /\ ret.op = "generateReport" /\ reportFile.exists
    /\ ~call.active
    /\ Len(transitionsFile.lines) = 2
    /\ transitionsFile.lines[1].from = NULL
    /\ transitionsFile.lines[1].to = "design"
    /\ transitionsFile.lines[2].from = "design"
    /\ transitionsFile.lines[2].to = "implement"
    /\ currentPhase = "implement"

\* C29: under every interleaving of parallel track-phase invocations, the
\* gate an invocation evaluated and logged is the gate of the transition it
\* records: the key of its gate-log record is from->to of its transition
\* record.
C29_GateMatchesTransition ==
    \A i \in Invocations :
        (calls[i].gateLog # <<>> /\ calls[i].record # <<>>)
            => calls[i].gateLog[1].transition
                  = TransitionKey(calls[i].record[1].from, calls[i].record[1].to)

\* the targets of the four gates
GatedTargets == {k[2] : k \in GateKeys}

\* the hook of the call that execute completes evaluated a gate, and it passed
GatePassedBeforehand == ret.op = "hook" /\ ret.evaluated /\ ret.passed

\* C30: in strict mode, every record with to = implement, test, review or
\* release is appended by an execute whose hook has evaluated the gate for
\* that transition and found it passed.
C30_StrictRecordsGated ==
    [][(strictMode /\ SetPhaseStep /\ call.phase \in GatedTargets)
          => GatePassedBeforehand]_vars

\* the same, for the transitions made while a current phase is set
StrictRecordsGatedOncePhaseSet ==
    [][(strictMode /\ SetPhaseStep /\ call.phase \in GatedTargets /\ currentPhase # NULL)
          => GatePassedBeforehand]_vars

====
